---- MODULE Spec2Model ----
(***************************************************************************)
(* A model of the reconciliation core of gprofiler: the hardware metrics   *)
(* monitor (gprofiler/hw_metrics.py), the admission gate for young         *)
(* processes (tests/test_short_lived_process_fix.py) and the sample        *)
(* scaling / merge rule (tests/test_merge_zero_samples_fix.py).            *)
(***************************************************************************)
EXTENDS Integers, Sequences, FiniteSets, TLC

VARIABLES
    self,       \* the HWMetricsMonitor object: _perfspect_path, _ps_process, _thread
    procs,      \* the external processes launched so far, in launch order
    fs,         \* PERFSPECT_DATA_DIRECTORY: [dir |-> exists?, files |-> name -> content]
    last_call,  \* the last lifecycle call (start/stop), what the OS answered it, how it ended
    q,          \* the thread inside get_hw_metrics(): position, locals, outcome
    clock,      \* time.time(), in ticks
    process,    \* the observed process: [create_time |-> ticks]
    min_duration, \* TestProfilerBase._min_duration, in seconds
    decision,   \* the last should_skip_young_process call: its inputs and what it returned
    stacks,     \* scale_sample_counts: the multiset passed in
    ratio,      \* scale_sample_counts: the ratio passed in, as num / den
    scaled,     \* scale_sample_counts: what it returned
    perf,       \* the round's reference profiles: pid -> optional multiset
    runtime,    \* the round's runtime profiles: pid -> optional multiset
    merged,     \* the round's merged profiles, once merged
    target,     \* attach_error_to_stacks: the multiset passed as perf_stacks
    error,      \* attach_error_to_stacks: the multiset passed as error_stacks
    attached,   \* attach_error_to_stacks: what it returned
    csv_lines,  \* a summary CSV as it is read: its lines, each a string
    parsed      \* what reading csv_lines gave: an exception or a dictionary

monVars == <<self, procs, fs, last_call, q>>

gateVars == <<clock, process, min_duration, decision>>

scaleVars == <<stacks, ratio, scaled>>

mergeVars == <<perf, runtime, merged>>

attachVars == <<target, error, attached>>

parseVars == <<csv_lines, parsed>>

vars == <<self, procs, fs, last_call, q, clock, process, min_duration, decision,
          stacks, ratio, scaled, perf, runtime, merged, target, error, attached,
          csv_lines, parsed>>

None == "None"

\* Optional values: absent is the empty sequence, present(v) the sequence <<v>>.
Absent == << >>

Some(v) == <<v>>

\* Bound: how many times the external tool is launched in one behaviour.
MaxLaunches == 2

(***************************************************************************)
(* The file system under PERFSPECT_DATA_DIRECTORY.                         *)
(***************************************************************************)

NoFile == Absent

\* _ps_raw_csv_filename, _ps_summary_csv_filename, _ps_summary_html_filename
SummaryNames == {"raw_csv", "summary_csv", "summary_html"}

\* _ps_latest_csv_filename, _ps_latest_html_filename
LatestNames == {"latest_csv", "latest_html"}

FileNames == SummaryNames \cup LatestNames

\* A text file is the sequence of its lines, a line the sequence of its
\* characters, its line end included.
Newline == "\n"

Comma == ","

\* "metric,value\n", shortened
CsvHeader == <<"m", Comma, "v", Newline>>

\* The value the tool's process w reports (0: a process of an earlier run).
Value(w) == <<"v0", "v1", "v2", "v3", "v4">>[w + 1]

Digit(w) == <<"0", "1", "2", "3", "4">>[w + 1]

\* "cpu,<w>\n"
CsvRow(w) == <<"c", "p", "u", Comma, Digit(w), Newline>>

\* A row of which only "cpu" is written so far.
CsvCutRow == <<"c", "p", "u">>

\* What a summary CSV written by w can hold when it is looked at: nothing yet
\* (created, not written), the header alone, the header and a complete row, the
\* header and a row cut before its first comma.
CsvFiles(w) ==
    { << >>, <<CsvHeader>>, <<CsvHeader, CsvRow(w)>>, <<CsvHeader, CsvCutRow>> }

HtmlFiles(w) == {Value(w)}

RawFiles(w) == {"raw"}

ToolFiles(name, w) ==
    CASE name = "raw_csv" -> RawFiles(w)
      [] name = "summary_csv" -> CsvFiles(w)
      [] name = "summary_html" -> HtmlFiles(w)

\* A file a previous run of the program can have left behind: one of the tool's
\* three outputs, or a "latest" copy whose removal an exception skipped.
StaleFile(name) ==
    CASE name = "raw_csv" -> "raw"
      [] name = "summary_csv" -> <<CsvHeader, CsvRow(0)>>
      [] name = "summary_html" -> Value(0)
      [] name = "latest_csv" -> << >>
      [] name = "latest_html" -> Value(0)

NoDirectory == [dir |-> FALSE, files |-> [n \in FileNames |-> NoFile]]

\* The directory as a new monitor can find it.
FoundDirectories ==
    {NoDirectory} \cup
    { [dir |-> TRUE,
       files |-> [n \in FileNames |-> IF n \in S THEN Some(StaleFile(n)) ELSE NoFile]] :
        S \in SUBSET FileNames }

os_path_exists(d, name) == d.dir /\ d.files[name] # NoFile

os_remove(d, name) == [d EXCEPT !.files[name] = NoFile]

remove_if_exists(d, name) == IF os_path_exists(d, name) THEN os_remove(d, name) ELSE d

\* A _cleanup that removes the directory and leaves it removed.
cleanup_rmtree(d) ==
    IF ~d.dir
    THEN [d EXCEPT !.dir = TRUE]
    ELSE NoDirectory

\* HWMetricsMonitor._cleanup
cleanup(d) ==
    IF ~d.dir
    THEN [d EXCEPT !.dir = TRUE]
    ELSE remove_if_exists(
             remove_if_exists(
                 remove_if_exists(d, "raw_csv"), "summary_csv"), "summary_html")

(***************************************************************************)
(* External processes.                                                     *)
(***************************************************************************)

\* running: launched, not signalled; terminating: SIGTERM sent, not yet gone;
\* exited: gone (its duration elapsed, or the signal took effect).
ProcStates == {"running", "terminating", "exited"}

Alive(p) == procs[p] \in {"running", "terminating"}

AliveCount == Cardinality({p \in DOMAIN procs : Alive(p)})

\* subprocess.Popen(ps_cmd, ...)
Popen(ps) == Append(ps, "running")

\* Popen.terminate(): a signal to a live process, nothing for one that is gone.
terminate(ps, h) == IF ps[h] = "running" THEN [ps EXCEPT ![h] = "terminating"] ELSE ps

(***************************************************************************)
(* Lifecycle calls, as functions of the world w = [self, procs, fs, exc].  *)
(* The handle _ps_process is 0 for None, else the index of its process.    *)
(***************************************************************************)

NoProcess == 0

World == [self |-> self, procs |-> procs, fs |-> fs, exc |-> None]

\* HWMetricsMonitor.__init__: the handle slots are empty, then _cleanup() runs.
init(path, d) ==
    [self |-> [perfspect_path |-> path, ps_process |-> NoProcess, thread |-> None],
     procs |-> << >>,
     fs |-> cleanup(d),
     exc |-> None]

\* A start that launches whatever is a regular file, executable or not.
start_unchecked_access(w, isfile, executable) ==
    IF w.self.perfspect_path = None \/ ~isfile
    THEN w
    ELSE [w EXCEPT !.procs = Popen(w.procs),
                   !.self.ps_process = Len(w.procs) + 1]

\* HWMetricsMonitor.start
start(w, isfile, executable) ==
    IF w.self.perfspect_path = None \/ ~isfile \/ ~executable
    THEN w
    ELSE [w EXCEPT !.procs = Popen(w.procs),
                   !.self.ps_process = Len(w.procs) + 1]

\* HWMetricsMonitor.stop
stop(w) ==
    LET ps == IF w.self.ps_process # NoProcess
              THEN terminate(w.procs, w.self.ps_process)
              ELSE w.procs
    IN [w EXCEPT !.procs = ps,
                 !.fs = cleanup(w.fs),
                 !.self.thread = None]

(***************************************************************************)
(* get_hw_metrics(): the pieces.                                           *)
(***************************************************************************)

\* An existence test that looks at the raw CSV whatever file it is asked about.
exists_raw_csv(d, name) == os_path_exists(d, "raw_csv")

\* os.path.exists(name) and os.path.isfile(name)
exists_and_isfile(d, name) == os_path_exists(d, name)

\* shutil.copy(src, dst)
shutil_copy(d, src, dst) ==
    IF ~os_path_exists(d, src)
    THEN [exc |-> "FileNotFoundError", fs |-> d]
    ELSE [exc |-> None, fs |-> [d EXCEPT !.files[dst] = d.files[src]]]

EmptyDict == << >>

\* summary_dict[csv_data[0]] = csv_data[1]
setitem(dict, key, value) == (key :> value) @@ dict

RECURSIVE split_from(_, _, _)
\* The fields of str from its first character on, field being the part of the
\* current field already passed.
split_from(str, sep, field) ==
    IF str = << >>
    THEN <<field>>
    ELSE IF Head(str) = sep
         THEN <<field>> \o split_from(Tail(str), sep, << >>)
         ELSE split_from(Tail(str), sep, Append(field, Head(str)))

\* str.split(sep)
split(str, sep) == split_from(str, sep, << >>)

RECURSIVE read_rows(_, _, _)
\* for line in f: csv_data = line.split(","); summary_dict[csv_data[0]] = csv_data[1]
read_rows(lines, i, dict) ==
    IF i > Len(lines)
    THEN [exc |-> None, value |-> dict]
    ELSE LET csv_data == split(lines[i], Comma)
         IN IF Len(csv_data) < 2
            THEN [exc |-> "IndexError", value |-> EmptyDict]
            ELSE read_rows(lines, i + 1, setitem(dict, csv_data[1], csv_data[2]))

\* A reader that takes the first line for a row.
read_summary_with_header(lines) ==
    IF Len(lines) = 0
    THEN [exc |-> "StopIteration", value |-> EmptyDict]
    ELSE read_rows(lines, 1, EmptyDict)

\* next(f) on the opened copy, then the loop over the remaining lines
read_summary(lines) ==
    IF Len(lines) = 0
    THEN [exc |-> "StopIteration", value |-> EmptyDict]
    ELSE read_rows(lines, 2, EmptyDict)

\* base64.b64encode(gzip.compress(html_data)).decode("utf-8")
encode_html(html_data) == <<"base64", <<"gzip", html_data>>>>

HWMetrics(metrics_data, metrics_html) ==
    [metrics_data |-> metrics_data, metrics_html |-> metrics_html]

(***************************************************************************)
(* Python floats (IEEE 754 binary64), for the operations the scaling uses: *)
(* int / int and int * float, both rounded to nearest, ties to even, and   *)
(* int(float).  A positive float is (2^52 + M) * 2^(e - 52) with           *)
(* 0 <= M < 2^52; M is held as four digits of 13 bits, most significant    *)
(* first, so that no intermediate number leaves 32 bits.  Zero is apart.   *)
(* Operands are integers below 2^13 and quotients of two such integers.    *)
(***************************************************************************)

\* The bits of one digit of the mantissa; four digits and the hidden bit make
\* the 53 bits of a binary64 mantissa.
DigitBits == 13

RECURSIVE Pow2(_)
Pow2(n) == IF n <= 0 THEN 1 ELSE 2 * Pow2(n - 1)

Base == Pow2(DigitBits)

FloatZero == [zero |-> TRUE, e |-> 0, m |-> <<0, 0, 0, 0>>]

FloatOne == [zero |-> FALSE, e |-> 0, m |-> <<0, 0, 0, 0>>]

\* The float just above (2^52 + M) * 2^(e - 52): M + 1, carried through the
\* digits; past the last mantissa the exponent grows.
NextUp(m, e) ==
    LET d4 == m[4] + 1
        d3 == m[3] + d4 \div Base
        d2 == m[2] + d3 \div Base
        d1 == m[1] + d2 \div Base
    IN IF d1 \div Base = 1
       THEN [zero |-> FALSE, e |-> e + 1, m |-> <<0, 0, 0, 0>>]
       ELSE [zero |-> FALSE, e |-> e, m |-> <<d1 % Base, d2 % Base, d3 % Base, d4 % Base>>]

\* Round to nearest, ties to even: m holds the first 53 bits, guard is the bit
\* after them, sticky says whether anything non-zero follows the guard bit.
RoundToFloat(m, e, guard, sticky) ==
    IF guard = 1 /\ (sticky \/ m[4] % 2 = 1)
    THEN NextUp(m, e)
    ELSE [zero |-> FALSE, e |-> e, m |-> m]

RECURSIVE Normalize(_, _, _)
\* Scale num or den by powers of two until den <= num < 2 * den; e counts them.
Normalize(num, den, e) ==
    IF num < den
    THEN Normalize(2 * num, den, e - 1)
    ELSE IF num >= 2 * den
         THEN Normalize(num, 2 * den, e + 1)
         ELSE [num |-> num, den |-> den, e |-> e]

\* num / den for integers num >= 0, den > 0 (Python's true division of ints):
\* long division, 13 bits at a time.
float_div(num, den) ==
    IF num = 0
    THEN FloatZero
    ELSE LET n == Normalize(num, den, 0)
             r0 == n.num - n.den
             r1 == (r0 * Base) % n.den
             r2 == (r1 * Base) % n.den
             r3 == (r2 * Base) % n.den
             r4 == (r3 * Base) % n.den
             guard == IF 2 * r4 >= n.den THEN 1 ELSE 0
         IN RoundToFloat(<<(r0 * Base) \div n.den, (r1 * Base) \div n.den,
                           (r2 * Base) \div n.den, (r3 * Base) \div n.den>>,
                         n.e, guard, 2 * r4 - guard * n.den # 0)

RECURSIVE BitLength(_)
\* The number of binary digits of n > 0.
BitLength(n) == IF n < 2 THEN 1 ELSE 1 + BitLength(n \div 2)

\* count * x for an integer 0 <= count < 2^13 and a float x >= 0: the exact
\* product digit by digit, then its first 53 bits, rounded.
float_mul(count, x) ==
    IF count = 0 \/ x.zero
    THEN FloatZero
    ELSE LET p4 == count * x.m[4]
             p3 == count * x.m[3] + p4 \div Base
             p2 == count * x.m[2] + p3 \div Base
             p1 == count * x.m[1] + p2 \div Base
             top == count + p1 \div Base
             \* the product is top * 2^52 + d[1..4]; it has shift bits too many
             d == <<top, p1 % Base, p2 % Base, p3 % Base, p4 % Base>>
             shift == BitLength(top) - 1
             low == Pow2(shift)
             high == Pow2(DigitBits - shift)
             digit(i) == (d[i] % low) * high + d[i + 1] \div low
             dropped == d[5] % low
             guard == IF shift = 0 THEN 0 ELSE (dropped \div Pow2(shift - 1)) % 2
             sticky == shift > 0 /\ dropped % Pow2(shift - 1) # 0
         IN RoundToFloat(<<digit(1), digit(2), digit(3), digit(4)>>,
                         x.e + shift, guard, sticky)

\* int(x) for a float 0 <= x < 2^27
float_to_int(x) ==
    IF x.zero \/ x.e < 0
    THEN 0
    ELSE Pow2(x.e) + (x.m[1] * Base + x.m[2]) \div Pow2(2 * DigitBits - x.e)

(***************************************************************************)
(* The monitor: initial state and actions.                                 *)
(***************************************************************************)

\* cycle: the process of the cycle the call was issued in, for the calls
\* followed from a restart on (QueryCallAfterRestart); NoProcess otherwise.
QueryIdle ==
    [pc |-> "idle", csv_exists |-> FALSE, html_exists |-> FALSE,
     summary_dict |-> Absent, encoded_html_data |-> Absent,
     exc |-> None, result |-> Absent, cycle |-> NoProcess]

\* The handle's process, if it was launched after a stop() that signalled the
\* process before it, which is still there.
RestartedCycle ==
    IF /\ Len(procs) >= 2
       /\ self.ps_process = Len(procs)
       /\ procs[Len(procs) - 1] = "terminating"
    THEN self.ps_process
    ELSE NoProcess

NoCall == [op |-> "init", exc |-> None, os |-> << >>]

\* After HWMetricsMonitor(stop_event, perfspect_path) has returned.
MonitorInit ==
    \E path \in {None, "/opt/perfspect"}, d \in FoundDirectories :
        LET w == init(path, d)
        IN /\ self = w.self
           /\ procs = w.procs
           /\ fs = w.fs
           /\ last_call = NoCall
           /\ q = QueryIdle

\* A caller runs start(); isfile and executable are what the OS answers for
\* the configured path at that moment.  last_call keeps whether both were true.
Start ==
    \E isfile, executable \in BOOLEAN :
        LET w == start(World, isfile, executable)
        IN /\ Len(w.procs) <= MaxLaunches
           /\ self' = w.self
           /\ procs' = w.procs
           /\ fs' = w.fs
           /\ last_call' = [op |-> "start", exc |-> w.exc, os |-> <<isfile /\ executable>>]
           /\ UNCHANGED <<q, gateVars, scaleVars, mergeVars, attachVars, parseVars>>

\* A caller runs stop().
Stop ==
    LET w == stop(World)
    IN /\ self' = w.self
       /\ procs' = w.procs
       /\ fs' = w.fs
       /\ last_call' = [op |-> "stop", exc |-> w.exc, os |-> << >>]
       /\ UNCHANGED <<q, gateVars, scaleVars, mergeVars, attachVars, parseVars>>

\* The external tool p (still alive) creates or overwrites one of its outputs.
ToolWrite ==
    \E p \in DOMAIN procs, name \in SummaryNames :
        \E c \in ToolFiles(name, p) :
            /\ Alive(p)
            /\ fs.dir
            /\ fs' = [fs EXCEPT !.files[name] = Some(c)]
            /\ UNCHANGED <<self, procs, last_call, q, gateVars, scaleVars, mergeVars, attachVars, parseVars>>

\* The external tool p is gone: its duration elapsed, or the signal took effect.
ToolExit ==
    \E p \in DOMAIN procs :
        /\ Alive(p)
        /\ procs' = [procs EXCEPT ![p] = "exited"]
        /\ UNCHANGED <<self, fs, last_call, q, gateVars, scaleVars, mergeVars, attachVars, parseVars>>

\* get_hw_metrics() is called.
QueryCall ==
    /\ q.pc \in {"idle", "returned", "raised"}
    /\ q' = [QueryIdle EXCEPT !.pc = "dict_exists"]
    /\ UNCHANGED <<self, procs, fs, last_call, gateVars, scaleVars, mergeVars, attachVars, parseVars>>

\* get_hw_metrics() is called in a cycle that began after a stop() whose
\* process has not gone yet; the call keeps the cycle it was issued in.
QueryCallAfterRestart ==
    /\ q.pc \in {"idle", "returned", "raised"}
    /\ RestartedCycle # NoProcess
    /\ q' = [QueryIdle EXCEPT !.pc = "dict_exists", !.cycle = RestartedCycle]
    /\ UNCHANGED <<self, procs, fs, last_call, gateVars, scaleVars, mergeVars, attachVars, parseVars>>

\* HWMetrics(self._get_hw_metrics_dict(), self._get_hw_metrics_html()) once both
\* values are there.
Return(query) ==
    [query EXCEPT !.pc = "returned",
                  !.result = Some(HWMetrics(query.summary_dict, query.encoded_html_data))]

Raise(query, exc) == [query EXCEPT !.pc = "raised", !.exc = exc]

\* _get_hw_metrics_dict: the existence test; absent -> return None.
DictExists ==
    /\ q.pc = "dict_exists"
    /\ LET there == exists_and_isfile(fs, "summary_csv")
       IN q' = [q EXCEPT !.csv_exists = there,
                         !.pc = IF there THEN "dict_copy" ELSE "html_exists"]
    /\ UNCHANGED <<self, procs, fs, last_call, gateVars, scaleVars, mergeVars, attachVars, parseVars>>

\* _get_hw_metrics_dict: shutil.copy to the "latest" path.
DictCopy ==
    /\ q.pc = "dict_copy"
    /\ LET r == shutil_copy(fs, "summary_csv", "latest_csv")
       IN /\ fs' = r.fs
          /\ q' = IF r.exc # None THEN Raise(q, r.exc) ELSE [q EXCEPT !.pc = "dict_read"]
    /\ UNCHANGED <<self, procs, last_call, gateVars, scaleVars, mergeVars, attachVars, parseVars>>

\* _get_hw_metrics_dict: read the copy, remove it, return the dictionary.
DictRead ==
    /\ q.pc = "dict_read"
    /\ LET r == read_summary(fs.files["latest_csv"][1])
       IN IF r.exc # None
          THEN /\ q' = Raise(q, r.exc)
               /\ UNCHANGED fs
          ELSE /\ fs' = os_remove(fs, "latest_csv")
               /\ q' = [q EXCEPT !.summary_dict = Some(r.value), !.pc = "html_exists"]
    /\ UNCHANGED <<self, procs, last_call, gateVars, scaleVars, mergeVars, attachVars, parseVars>>

\* _get_hw_metrics_html: the existence test; absent -> return None.
HtmlExists ==
    /\ q.pc = "html_exists"
    /\ LET there == exists_and_isfile(fs, "summary_html")
       IN q' = IF there
               THEN [q EXCEPT !.html_exists = TRUE, !.pc = "html_copy"]
               ELSE Return(q)
    /\ UNCHANGED <<self, procs, fs, last_call, gateVars, scaleVars, mergeVars, attachVars, parseVars>>

\* _get_hw_metrics_html: shutil.copy to the "latest" path.
HtmlCopy ==
    /\ q.pc = "html_copy"
    /\ LET r == shutil_copy(fs, "summary_html", "latest_html")
       IN /\ fs' = r.fs
          /\ q' = IF r.exc # None THEN Raise(q, r.exc) ELSE [q EXCEPT !.pc = "html_read"]
    /\ UNCHANGED <<self, procs, last_call, gateVars, scaleVars, mergeVars, attachVars, parseVars>>

\* _get_hw_metrics_html: read the copy, compress and encode it, remove it, return.
HtmlRead ==
    /\ q.pc = "html_read"
    /\ fs' = os_remove(fs, "latest_html")
    /\ q' = Return([q EXCEPT !.encoded_html_data =
                                 Some(encode_html(fs.files["latest_html"][1]))])
    /\ UNCHANGED <<self, procs, last_call, gateVars, scaleVars, mergeVars, attachVars, parseVars>>

MonitorNext ==
    \/ Start
    \/ Stop
    \/ ToolWrite
    \/ ToolExit
    \/ QueryCall
    \/ DictExists
    \/ DictCopy
    \/ DictRead
    \/ HtmlExists
    \/ HtmlCopy
    \/ HtmlRead

\* The monitor when its queries are those issued after a restart.
CycleNext ==
    \/ Start
    \/ Stop
    \/ ToolWrite
    \/ ToolExit
    \/ QueryCallAfterRestart
    \/ DictExists
    \/ DictCopy
    \/ DictRead
    \/ HtmlExists
    \/ HtmlCopy
    \/ HtmlRead

(***************************************************************************)
(* The admission gate.  Times are in ticks, TicksPerSecond to the second,  *)
(* so that an age of half a second short of the threshold can be told from *)
(* the threshold itself.                                                   *)
(***************************************************************************)

\* Bounds: the resolution of the clock, the last clock reading, the latest
\* creation time, the largest threshold (seconds).
TicksPerSecond == 2

MaxClock == 10

MaxCreateTime == 3

MaxMinDuration == 3

\* float('inf')
Infinity == [inf |-> TRUE, ticks |-> 0]

Finite(ticks) == [inf |-> FALSE, ticks |-> ticks]

\* process_age < self._min_duration, for an age that may be float('inf')
age_less_than(age, seconds) == ~age.inf /\ age.ticks < seconds * TicksPerSecond

\* An age lookup that answers 0 for a process it cannot read.
get_process_age_zero(now, proc, raises) ==
    IF raises THEN Finite(0) ELSE Finite(now - proc.create_time)

\* TestProfilerBase._get_process_age; raises: process.create_time() raises
get_process_age(now, proc, raises) ==
    IF raises THEN Infinity ELSE Finite(now - proc.create_time)

\* A gate whose threshold is inclusive.
should_skip_inclusive(now, proc, raises, min_dur) ==
    LET process_age == get_process_age(now, proc, raises)
    IN [exc |-> None,
        value |-> (process_age = Finite(min_dur * TicksPerSecond)
                   \/ age_less_than(process_age, min_dur))]

\* TestProfilerBase.should_skip_young_process
should_skip_young_process(now, proc, raises, min_dur) ==
    LET process_age == get_process_age(now, proc, raises)
    IN [exc |-> None,
        value |-> IF age_less_than(process_age, min_dur) THEN TRUE ELSE FALSE]

NoDecision == Absent

GateInit ==
    /\ clock \in 0 .. MaxCreateTime
    /\ process \in [create_time : 0 .. MaxCreateTime]
    /\ min_duration \in 0 .. MaxMinDuration
    /\ decision = NoDecision

GateParked ==
    /\ clock = 0
    /\ process = [create_time |-> 0]
    /\ min_duration = 0
    /\ decision = NoDecision

\* Time passes.
Tick ==
    /\ clock < MaxClock
    /\ clock' = clock + 1
    /\ UNCHANGED <<process, min_duration, decision, monVars, scaleVars, mergeVars, attachVars, parseVars>>

\* A caller asks whether the process is to be skipped; raises: the OS cannot
\* give its creation time (it has exited, or access is denied).
Check ==
    \E raises \in BOOLEAN :
        LET r == should_skip_young_process(clock, process, raises, min_duration)
        IN /\ decision' = Some([now |-> clock, raises |-> raises,
                                exc |-> r.exc, skip |-> r.value])
           /\ UNCHANGED <<clock, process, min_duration, monVars, scaleVars, mergeVars, attachVars, parseVars>>

GateNext ==
    \/ Tick
    \/ Check

MonitorParked ==
    /\ self = [perfspect_path |-> None, ps_process |-> NoProcess, thread |-> None]
    /\ procs = << >>
    /\ fs = cleanup(NoDirectory)
    /\ last_call = NoCall
    /\ q = QueryIdle

(***************************************************************************)
(* Stack samples.  A stack key is a string, held as its characters so that *)
(* lower() and the substring test can be computed; a multiset (Counter) is *)
(* a function from the keys it holds to their counts.                      *)
(***************************************************************************)

StackA == <<"a">>

StackB == <<"b">>

StackK == <<"k">>

\* "Error": an error marker as is_error_stack finds it, whatever its case.
StackError == <<"E", "r", "r", "o", "r">>

UpperCase == <<"A", "B", "C", "D", "E", "F", "G", "H", "I", "J", "K", "L", "M",
               "N", "O", "P", "Q", "R", "S", "T", "U", "V", "W", "X", "Y", "Z">>

LowerCase == <<"a", "b", "c", "d", "e", "f", "g", "h", "i", "j", "k", "l", "m",
               "n", "o", "p", "q", "r", "s", "t", "u", "v", "w", "x", "y", "z">>

\* str.lower()
lower(str) ==
    [i \in 1 .. Len(str) |->
        IF \E j \in DOMAIN UpperCase : UpperCase[j] = str[i]
        THEN LowerCase[CHOOSE j \in DOMAIN UpperCase : UpperCase[j] = str[i]]
        ELSE str[i]]

\* sub in str
contains(str, sub) ==
    \E i \in 1 .. (Len(str) - Len(sub) + 1) : SubSeq(str, i, i + Len(sub) - 1) = sub

EmptyCounter == << >>

\* Counter[key]: 0 for a key it does not hold
count_of(counter, key) == IF key \in DOMAIN counter THEN counter[key] ELSE 0

RECURSIVE SumOver(_, _)
SumOver(counter, keys) ==
    IF keys = {}
    THEN 0
    ELSE LET k == CHOOSE x \in keys : TRUE
         IN counter[k] + SumOver(counter, keys \ {k})

\* sum(stacks.values())
total(counter) == SumOver(counter, DOMAIN counter)

\* MockProfilingErrorStack.is_error_stack
is_error_stack(counter) ==
    \E key \in DOMAIN counter : contains(lower(key), <<"e", "r", "r", "o", "r">>)

\* An attach whose update() replaces the count of a key both sides hold, as
\* dict.update does.
attach_overwrite(perf_stacks, error_stacks) ==
    [key \in DOMAIN perf_stacks \cup DOMAIN error_stacks |->
        IF key \in DOMAIN error_stacks THEN error_stacks[key] ELSE perf_stacks[key]]

\* MockProfilingErrorStack.attach_error_to_stacks: Counter(perf_stacks), then
\* update(error_stacks), which adds the counts
attach_error_to_stacks(perf_stacks, error_stacks) ==
    [key \in DOMAIN perf_stacks \cup DOMAIN error_stacks |->
        count_of(perf_stacks, key) + count_of(error_stacks, key)]

\* int(count * ratio)
new_count(count, x) == float_to_int(float_mul(count, x))

\* A scaling without the shortcut for a ratio of 1.
scale_every_ratio(counter, x) ==
    [key \in {k \in DOMAIN counter : new_count(counter[k], x) > 0} |->
        new_count(counter[key], x)]

\* A scaling that keeps the stacks whose new count is 0.
scale_keep_empty(counter, x) ==
    IF x = FloatOne
    THEN counter
    ELSE [key \in DOMAIN counter |-> new_count(counter[key], x)]

\* mock_scale_sample_counts; x is the ratio, a float
mock_scale_sample_counts(counter, x) ==
    IF x = FloatOne
    THEN counter
    ELSE [key \in {k \in DOMAIN counter : new_count(counter[k], x) > 0} |->
             new_count(counter[key], x)]

\* All multisets over some of the keys, with counts lo .. hi.
Counters(keys, lo, hi) == UNION {[S -> lo .. hi] : S \in SUBSET keys}

(***************************************************************************)
(* A call of the scaling utility.                                          *)
(***************************************************************************)

\* Bounds: the largest count of one stack, the largest numerator and the
\* largest denominator of the ratio.
MaxCount == 11

MaxNum == 15

MaxDen == 11

ScaleKeys == {StackA, StackB}

ScaleInit ==
    /\ stacks \in Counters(ScaleKeys, 0, MaxCount)
    /\ ratio \in [num : 0 .. MaxNum, den : 1 .. MaxDen]
    /\ scaled = Absent

ScaleParked ==
    /\ stacks = EmptyCounter
    /\ ratio = [num |-> 1, den |-> 1]
    /\ scaled = Absent

\* ratio = perf_samples_count / profile_samples_count, then the call
Scale ==
    /\ scaled = Absent
    /\ scaled' = Some(mock_scale_sample_counts(stacks, float_div(ratio.num, ratio.den)))
    /\ UNCHANGED <<stacks, ratio, monVars, gateVars, mergeVars, attachVars, parseVars>>

ScaleNext == Scale

(***************************************************************************)
(* A call of attach_error_to_stacks.                                       *)
(***************************************************************************)

\* Bound: the largest count of one stack passed to attach_error_to_stacks.
MaxAttachCount == 2

AttachKeys == {StackA, StackError}

\* The call as its caller sees it: the two arguments after the call and the
\* value returned.  Counter(perf_stacks) is a copy, update() changes the copy
\* and reads error_stacks.
attach_call(perf_stacks, error_stacks) ==
    [perf_stacks |-> perf_stacks,
     error_stacks |-> error_stacks,
     combined |-> attach_error_to_stacks(perf_stacks, error_stacks)]

AttachInit ==
    /\ target \in Counters(AttachKeys, 0, MaxAttachCount)
    /\ error \in Counters(AttachKeys, 0, MaxAttachCount)
    /\ attached = Absent

AttachParked ==
    /\ target = EmptyCounter
    /\ error = EmptyCounter
    /\ attached = Absent

Attach ==
    /\ attached = Absent
    /\ LET r == attach_call(target, error)
       IN /\ target' = r.perf_stacks
          /\ error' = r.error_stacks
          /\ attached' = Some(r.combined)
    /\ UNCHANGED <<monVars, gateVars, scaleVars, mergeVars, parseVars>>

AttachNext == Attach

(***************************************************************************)
(* A round of the reconciler.  A call gives [exc, value]: the exception it *)
(* raised (None: it returned) and the value it returned.                   *)
(***************************************************************************)

\* Bounds: the largest count of one reference stack and of one runtime stack.
MaxPerfCount == 1

MaxRuntimeCount == 2

Pids == {1, 2}

PerfKeys == {StackA, StackK}

RuntimeKeys == {StackA, StackError}

Ok(v) == [exc |-> None, value |-> v]

Raised(exc) == [exc |-> exc, value |-> << >>]

\* perf_samples_count / profile_samples_count: Python's true division
divide(num, den) ==
    IF den = 0 THEN Raised("ZeroDivisionError") ELSE Ok(float_div(num, den))

\* The reference is healthy and the runtime profile is an error stack: the error
\* stack is attached to the reference's own stacks.
attach_branch(perf_stacks, runtime_stacks) ==
    Ok(attach_error_to_stacks(perf_stacks, runtime_stacks))

\* The rescaling of the runtime stacks and their combination with the
\* reference's stacks.
scale_and_combine(perf_stacks, runtime_stacks) ==
    LET r == divide(total(perf_stacks), total(runtime_stacks))
    IN IF r.exc # None
       THEN Raised(r.exc)
       ELSE Ok(attach_error_to_stacks(
                   mock_scale_sample_counts(runtime_stacks, r.value), perf_stacks))

\* A healthy-reference branch without the guard of the denominator.
scale_branch_unguarded(perf_stacks, runtime_stacks) ==
    scale_and_combine(perf_stacks, runtime_stacks)

\* The reference is healthy: the runtime stacks are scaled to the reference's
\* volume (nothing to scale when they hold no sample) and combined with the
\* reference's stacks.
scale_branch(perf_stacks, runtime_stacks) ==
    IF total(runtime_stacks) = 0
    THEN Ok(attach_error_to_stacks(runtime_stacks, perf_stacks))
    ELSE scale_and_combine(perf_stacks, runtime_stacks)

\* The merge before the fix: the runtime stacks are scaled whatever the
\* reference's count is.
merge_stacks_unguarded(perf_stacks, runtime_stacks) ==
    IF total(perf_stacks) > 0 /\ is_error_stack(runtime_stacks)
    THEN attach_branch(perf_stacks, runtime_stacks)
    ELSE IF total(runtime_stacks) > 0
         THEN Ok(mock_scale_sample_counts(
                     runtime_stacks, float_div(total(perf_stacks), total(runtime_stacks))))
         ELSE Ok(runtime_stacks)

\* A merge that knows no error stack: with a healthy reference every runtime
\* profile is scaled.
merge_stacks_scale_errors(perf_stacks, runtime_stacks) ==
    IF total(perf_stacks) > 0
    THEN scale_branch(perf_stacks, runtime_stacks)
    ELSE Ok(runtime_stacks)

\* The merge of one process's runtime profile with its reference profile
merge_stacks(perf_stacks, runtime_stacks) ==
    LET perf_samples_count == total(perf_stacks)
    IN IF perf_samples_count > 0 /\ is_error_stack(runtime_stacks)
       THEN attach_branch(perf_stacks, runtime_stacks)
       ELSE IF perf_samples_count > 0
            THEN scale_branch(perf_stacks, runtime_stacks)
            ELSE Ok(runtime_stacks)

\* A source's stacks for a process: an empty multiset when it gave no profile.
stacks_of(profiles, pid) ==
    IF profiles[pid] = Absent THEN EmptyCounter ELSE profiles[pid][1]

\* A round that looks only at the processes the runtime source gave a
\* profile of.
profiled_by_runtime(perf_profiles, runtime_profiles) ==
    {pid \in Pids : runtime_profiles[pid] # Absent}

\* The processes either source has a profile of.
profiled(perf_profiles, runtime_profiles) ==
    {pid \in Pids : perf_profiles[pid] # Absent \/ runtime_profiles[pid] # Absent}

\* The merged profile of one process of the round.
merge_process(perf_profiles, runtime_profiles, pid) ==
    IF runtime_profiles[pid] # Absent
    THEN merge_stacks(stacks_of(perf_profiles, pid), runtime_profiles[pid][1])
    ELSE Ok(perf_profiles[pid][1])

\* A round that gives no result at all when a process lacks one of its two
\* profiles.
merge_all_or_nothing(perf_profiles, runtime_profiles) ==
    IF \E pid \in profiled(perf_profiles, runtime_profiles) :
           perf_profiles[pid] = Absent \/ runtime_profiles[pid] = Absent
    THEN Ok(<< >>)
    ELSE Ok([pid \in profiled(perf_profiles, runtime_profiles) |->
                merge_process(perf_profiles, runtime_profiles, pid).value])

\* merge(referenceProfile, perProcessRuntimeProfiles): one merged multiset for
\* each process either source has a profile of; an exception of one process's
\* merge leaves the round.
merge(perf_profiles, runtime_profiles) ==
    LET pids == profiled(perf_profiles, runtime_profiles)
        failed == {pid \in pids :
                      merge_process(perf_profiles, runtime_profiles, pid).exc # None}
    IN IF failed # {}
       THEN Raised(merge_process(perf_profiles, runtime_profiles,
                                 CHOOSE pid \in failed : TRUE).exc)
       ELSE Ok([pid \in pids |->
                   merge_process(perf_profiles, runtime_profiles, pid).value])

Optional(S) == {Absent} \cup {Some(x) : x \in S}

MergeInit ==
    /\ perf \in [Pids -> Optional(Counters(PerfKeys, 1, MaxPerfCount))]
    /\ runtime \in [Pids -> Optional(Counters(RuntimeKeys, 0, MaxRuntimeCount))]
    /\ merged = Absent

MergeParked ==
    /\ perf = [p \in Pids |-> Absent]
    /\ runtime = [p \in Pids |-> Absent]
    /\ merged = Absent

\* The round's profiles are merged.
Merge ==
    /\ merged = Absent
    /\ merged' = Some(merge(perf, runtime))
    /\ UNCHANGED <<perf, runtime, monVars, gateVars, scaleVars, attachVars, parseVars>>

MergeNext == Merge

(***************************************************************************)
(* Reading one summary CSV.                                                *)
(***************************************************************************)

\* Bound: the largest number of lines of the file.
MaxLines == 3

\* The lines a file is made of: the header, rows of two names (one of them
\* with two values), a row with a third field, a last row without a line
\* end, a row cut before its comma, an empty line.
ParseLines ==
    { CsvHeader,
      <<"c", Comma, "1", Newline>>,
      <<"c", Comma, "2", Newline>>,
      <<"d", Comma, "1", Comma, "x", Newline>>,
      <<"d", Comma, "2">>,
      <<"c">>,
      <<Newline>> }

ParseInit ==
    /\ csv_lines \in UNION {[1 .. n -> ParseLines] : n \in 0 .. MaxLines}
    \* only the last line of a file can lack its line end
    /\ \A i \in 1 .. (Len(csv_lines) - 1) : csv_lines[i][Len(csv_lines[i])] = Newline
    /\ parsed = Absent

ParseParked ==
    /\ csv_lines = << >>
    /\ parsed = Absent

\* The body of _get_hw_metrics_dict on the copy of the file.
Parse ==
    /\ parsed = Absent
    /\ parsed' = Some(read_summary(csv_lines))
    /\ UNCHANGED <<csv_lines, monVars, gateVars, scaleVars, mergeVars, attachVars>>

ParseNext == Parse

(***************************************************************************)
(* NoopHWMetricsMonitor: the monitor used when hardware metrics are off.   *)
(* It has no field and no constructor; the directory is as it finds it.    *)
(***************************************************************************)

NoopSelf == [class |-> "NoopHWMetricsMonitor"]

\* NoopHWMetricsMonitor.start
noop_start(w) == w

\* NoopHWMetricsMonitor.stop
noop_stop(w) == w

\* A _get_hw_metrics_dict that reads the summary CSV as the real monitor does.
noop_dict_from_file(d) ==
    IF exists_and_isfile(d, "summary_csv")
    THEN Some(read_summary(d.files["summary_csv"][1]).value)
    ELSE Absent

\* NoopHWMetricsMonitor._get_hw_metrics_dict
noop_get_hw_metrics_dict(d) == Absent

\* NoopHWMetricsMonitor._get_hw_metrics_html
noop_get_hw_metrics_html(d) == Absent

NoopInit ==
    /\ self = NoopSelf
    /\ procs = << >>
    /\ fs \in FoundDirectories
    /\ last_call = NoCall
    /\ q = QueryIdle

NoopStart ==
    LET w == noop_start(World)
    IN /\ self' = w.self
       /\ procs' = w.procs
       /\ fs' = w.fs
       /\ last_call' = [op |-> "start", exc |-> w.exc, os |-> << >>]
       /\ UNCHANGED <<q, gateVars, scaleVars, mergeVars, attachVars, parseVars>>

NoopStop ==
    LET w == noop_stop(World)
    IN /\ self' = w.self
       /\ procs' = w.procs
       /\ fs' = w.fs
       /\ last_call' = [op |-> "stop", exc |-> w.exc, os |-> << >>]
       /\ UNCHANGED <<q, gateVars, scaleVars, mergeVars, attachVars, parseVars>>

\* HWMetricsMonitorBase.get_hw_metrics on the Noop monitor
NoopQuery ==
    /\ q' = Return([QueryIdle EXCEPT !.summary_dict = noop_get_hw_metrics_dict(fs),
                                     !.encoded_html_data = noop_get_hw_metrics_html(fs)])
    /\ UNCHANGED <<self, procs, fs, last_call, gateVars, scaleVars, mergeVars,
                   attachVars, parseVars>>

NoopNext ==
    \/ NoopStart
    \/ NoopStop
    \/ NoopQuery

(***************************************************************************)
(* The specifications.                                                     *)
(***************************************************************************)

Init ==
    MonitorInit /\ GateParked /\ ScaleParked /\ MergeParked /\ AttachParked /\ ParseParked

Next == MonitorNext

Spec == Init /\ [][Next]_vars

InitGate ==
    GateInit /\ MonitorParked /\ ScaleParked /\ MergeParked /\ AttachParked /\ ParseParked

SpecCycle == Init /\ [][CycleNext]_vars

SpecGate == InitGate /\ [][GateNext]_vars

InitScale ==
    ScaleInit /\ MonitorParked /\ GateParked /\ MergeParked /\ AttachParked /\ ParseParked

SpecScale == InitScale /\ [][ScaleNext]_vars

InitMerge ==
    MergeInit /\ MonitorParked /\ GateParked /\ ScaleParked /\ AttachParked /\ ParseParked

SpecMerge == InitMerge /\ [][MergeNext]_vars

InitAttach ==
    AttachInit /\ MonitorParked /\ GateParked /\ ScaleParked /\ MergeParked /\ ParseParked

SpecAttach == InitAttach /\ [][AttachNext]_vars

InitParse ==
    ParseInit /\ MonitorParked /\ GateParked /\ ScaleParked /\ MergeParked /\ AttachParked

SpecParse == InitParse /\ [][ParseNext]_vars

InitNoop ==
    NoopInit /\ GateParked /\ ScaleParked /\ MergeParked /\ AttachParked /\ ParseParked

SpecNoop == InitNoop /\ [][NoopNext]_vars

(***************************************************************************)
(* Claims about the monitor (checked under Spec).                          *)
(***************************************************************************)

\* C3: at most one external collection process launched by the monitor is
\* alive at any time.
AtMostOneProcessAlive == AliveCount <= 1

Launch == Len(procs') = Len(procs) + 1

\* C4: at every launch of the external tool none of the raw CSV, summary CSV
\* and summary HTML files exists.
LaunchFindsNoOutputFiles ==
    [][Launch => \A n \in SummaryNames : ~os_path_exists(fs, n)]_vars

\* C8: each existence test of a query sees the file as it is then; a query
\* that returns has metrics_data None exactly if it found no summary CSV and
\* metrics_html None exactly if it found no summary HTML; a query that found
\* neither file returns HWMetrics(None, None) and does not raise.
QueryFieldsFollowFiles ==
    [][/\ (q.pc = "dict_exists" /\ q'.pc # "dict_exists")
            => q'.csv_exists = (fs.files["summary_csv"] # NoFile)
       /\ (q.pc = "html_exists" /\ q'.pc # "html_exists")
            => q'.html_exists = (fs.files["summary_html"] # NoFile)
       /\ q'.pc = "returned"
            => /\ q'.result # Absent
               /\ (q'.result[1].metrics_data = Absent) <=> ~q'.csv_exists
               /\ (q'.result[1].metrics_html = Absent) <=> ~q'.html_exists
       /\ q'.pc = "raised" => (q'.csv_exists \/ q'.html_exists)
       /\ (q'.pc \in {"returned", "raised"} /\ ~q'.csv_exists /\ ~q'.html_exists)
            => (q'.pc = "returned" /\ q'.result = Some(HWMetrics(Absent, Absent)))
      ]_vars

\* C8 witness: a query returned a dictionary and no HTML.
QueryReturnedDataOnly ==
    /\ q.pc = "returned"
    /\ q.csv_exists
    /\ ~q.html_exists
    /\ q.result[1].metrics_data # Absent
    /\ q.result[1].metrics_html = Absent

\* C9: get_hw_metrics() never surfaces an exception to its caller.
QueryNeverRaises == q.pc # "raised"

WorldAfter == [self |-> self', procs |-> procs', fs |-> fs', exc |-> None]

\* C10: stop() can be called in every state, whatever the external process
\* does, and returns without error; stop() run again right after a stop()
\* changes nothing: not the monitor's fields, the processes or the directory.
StopIdempotentAndTotal ==
    /\ [](ENABLED Stop)
    /\ [][Stop => (last_call'.exc = None /\ stop(WorldAfter) = WorldAfter)]_vars

\* C10 witness: stop() has signalled a running process.
StopSignalledProcess ==
    /\ last_call.op = "stop"
    /\ self.ps_process # NoProcess
    /\ procs[self.ps_process] = "terminating"

\* C11: after every stop() the monitor is Idle: its process handle holds no
\* process.
StopClearsHandle == last_call.op = "stop" => self.ps_process = NoProcess

\* C12: a start() whose tool path is None, no regular file or not executable
\* launches nothing, changes neither the monitor's fields nor the directory
\* and raises nothing; any other start() launches exactly one process, which
\* the handle then holds.
StartSoftDisable ==
    [][Start =>
        /\ last_call'.exc = None
        /\ IF self.perfspect_path = None \/ ~last_call'.os[1]
           THEN UNCHANGED <<self, procs, fs>>
           ELSE /\ procs' = Append(procs, "running")
                /\ self'.ps_process = Len(procs')
                /\ UNCHANGED fs
      ]_vars

\* C12 witness: with a tool path configured, a start() that found the tool
\* not runnable came after one that launched it, and left its process alone.
StartRefusedAfterLaunch ==
    /\ last_call.op = "start"
    /\ ~last_call.os[1]
    /\ self.perfspect_path # None
    /\ Len(procs) = 1
    /\ self.ps_process = 1

InQuerySection == q.pc \in {"dict_copy", "dict_read", "html_exists", "html_copy", "html_read"}

\* C18: start(), stop() and queries are serialized: no stop() and no launch
\* happens while a query is between its first look at the output files and
\* its return.
LifecycleExcludesQuery ==
    [][(Stop \/ Launch) => ~InQuerySection]_vars

\* C22: on the Noop monitor start() and stop() change nothing (no process,
\* nothing in the directory) and raise nothing, and every get_hw_metrics()
\* returns HWMetrics(None, None), whatever files the directory holds.
NoopChangesNothing ==
    [][(NoopStart \/ NoopStop \/ NoopQuery) =>
        /\ UNCHANGED <<self, procs, fs>>
        /\ procs' = << >>
        /\ last_call'.exc = None
        /\ NoopQuery => (/\ q'.pc = "returned"
                         /\ q'.result = Some(HWMetrics(Absent, Absent)))
      ]_vars

\* C22 witness: after a start() and a stop(), a query of the Noop monitor
\* returned no data in a directory that holds both summary files.
NoopQueriedBesideFiles ==
    /\ self = NoopSelf
    /\ last_call.op = "stop"
    /\ q.pc = "returned"
    /\ q.result = Some(HWMetrics(Absent, Absent))
    /\ os_path_exists(fs, "summary_csv")
    /\ os_path_exists(fs, "summary_html")

\* The artifacts process w writes, as a query returns them.
DataOf(w) == setitem(EmptyDict, <<"c", "p", "u">>, <<Digit(w), Newline>>)

HtmlOf(w) == encode_html(Value(w))

\* C23: a query issued after a stop() and a new start() returns nothing that
\* the process of an earlier cycle wrote, even if that process, signalled and
\* not waited for, is still there to write after stop()'s purge.
NoArtifactOfEarlierCycle ==
    (q.pc = "returned" /\ q.cycle # NoProcess)
        => \A w \in 1 .. (q.cycle - 1) :
               /\ q.result[1].metrics_data # Some(DataOf(w))
               /\ q.result[1].metrics_html # Some(HtmlOf(w))

\* C24: when a query returns, neither "latest" copy exists, and the step has
\* left the tool's three files as they were.
QueryLeavesNoCopy ==
    [][(q'.pc = "returned" /\ q.pc # "returned")
          => /\ ~os_path_exists(fs', "latest_csv")
             /\ ~os_path_exists(fs', "latest_html")
             /\ \A n \in SummaryNames : fs'.files[n] = fs.files[n]
      ]_vars

(***************************************************************************)
(* Claims about the admission gate (checked under SpecGate).               *)
(***************************************************************************)

Decided == decision # NoDecision

Age(d) == d.now - process.create_time

\* C5: with a readable age, the process is skipped exactly if its age is below
\* the threshold; an age equal to the threshold is not skipped.
SkipIffYounger ==
    (Decided /\ ~decision[1].raises)
        => /\ decision[1].skip <=> (Age(decision[1]) < min_duration * TicksPerSecond)
           /\ decision[1].exc = None

\* C5 witness: a process exactly as old as a positive threshold was admitted.
AdmittedAtThreshold ==
    /\ Decided
    /\ ~decision[1].raises
    /\ min_duration > 0
    /\ Age(decision[1]) = min_duration * TicksPerSecond
    /\ ~decision[1].skip

\* C6: when the age lookup fails, the process is not skipped, whatever the
\* threshold, and no exception reaches the caller.
UnreadableAgeNotSkipped ==
    (Decided /\ decision[1].raises)
        => (~decision[1].skip /\ decision[1].exc = None)

\* C6 witness: the lookup failed for a process younger than a positive threshold.
UnreadableYoungAdmitted ==
    /\ Decided
    /\ decision[1].raises
    /\ Age(decision[1]) >= 0
    /\ Age(decision[1]) < min_duration * TicksPerSecond
    /\ ~decision[1].skip

\* C7: with min_duration = 0 no process is skipped, for any creation time and
\* clock reading.
ZeroThresholdNeverSkips ==
    (Decided /\ min_duration = 0) => ~decision[1].skip

\* C25: once a check has admitted the process, the next check admits it too,
\* also when the first could not read the age and the next can; and a check
\* that reads an age of min_duration or more admits.
AdmissionIsMonotone ==
    /\ [][(Decided /\ ~decision[1].skip /\ decision' # NoDecision)
             => ~decision'[1].skip]_vars
    /\ []((Decided /\ ~decision[1].raises
              /\ Age(decision[1]) >= min_duration * TicksPerSecond)
             => ~decision[1].skip)

(***************************************************************************)
(* Claims about scaling (SpecScale) and merging (SpecMerge).               *)
(***************************************************************************)

MergedPid(pid) == merged # Absent /\ merged[1].exc = None /\ pid \in DOMAIN merged[1].value

DegradedReference(pid) ==
    /\ runtime[pid] # Absent
    /\ total(runtime[pid][1]) > 0
    /\ total(stacks_of(perf, pid)) = 0

\* C1: a process whose runtime multiset has a total above 0 and whose
\* reference total is 0 gets exactly its runtime multiset as merged result,
\* error stack or not.
DegradedReferencePassesRuntime ==
    merged # Absent =>
        \A pid \in Pids :
            DegradedReference(pid)
                => (MergedPid(pid) /\ merged[1].value[pid] = runtime[pid][1])

\* C1 witness: a round was merged in which an error stack and a plain runtime
\* profile both met a reference total of 0.
DegradedRoundMerged ==
    /\ merged # Absent
    /\ DegradedReference(1)
    /\ DegradedReference(2)
    /\ is_error_stack(runtime[1][1])
    /\ ~is_error_stack(runtime[2][1])
    /\ perf[1] # Absent
    /\ perf[2] = Absent
    /\ total(merged[1].value[1]) = 2 * MaxRuntimeCount

\* C2: scaling M (n stacks, total T > 0) by R / T with R > 0 gives a total
\* that is at most R and greater than R - n.
ScaledTotalNearReference ==
    (scaled # Absent /\ ratio.num > 0 /\ ratio.den = total(stacks))
        => /\ total(scaled[1]) <= ratio.num
           /\ total(scaled[1]) > ratio.num - Cardinality(DOMAIN stacks)

\* C13: scaling by a ratio of 1 returns the multiset as it is, its entries of
\* count 0 included.
ScaleByOneIsIdentity ==
    (scaled # Absent /\ ratio.num = ratio.den) => scaled[1] = stacks

\* C13 witness: a multiset with an entry of count 0 and one of a positive
\* count was scaled by 1.
ScaledByOneWithZeroEntry ==
    /\ scaled # Absent
    /\ ratio.num = ratio.den
    /\ \E k \in DOMAIN stacks : stacks[k] = 0
    /\ \E k \in DOMAIN stacks : stacks[k] > 0
    /\ scaled[1] = stacks

\* int(count * ratio) for the call's ratio, as the program's arithmetic gives it.
Floored(k) == new_count(stacks[k], float_div(ratio.num, ratio.den))

AttachIsAdditive ==
    [][Attach =>
        /\ DOMAIN attached'[1] = DOMAIN target \cup DOMAIN error
        /\ \A k \in DOMAIN attached'[1] :
               attached'[1][k] = count_of(target, k) + count_of(error, k)
        /\ \A k \in DOMAIN target : attached'[1][k] >= target[k]
        /\ total(attached'[1]) = total(target) + total(error)
        /\ target' = target
        /\ error' = error
      ]_vars

\* C15 witness: an error multiset with the error marker was attached to a
\* target with which it shares a stack, both counts of that stack positive.
AttachedSharedStack ==
    /\ attached # Absent
    /\ is_error_stack(error)
    /\ StackA \in DOMAIN target \cap DOMAIN error
    /\ target[StackA] > 0
    /\ error[StackA] > 0
    /\ attached[1][StackA] = target[StackA] + error[StackA]

(***************************************************************************)
(* Claims about merging (SpecMerge), continued.                            *)
(***************************************************************************)

ReferenceTotal(pid) == total(stacks_of(perf, pid))

\* A process with a healthy reference and a runtime profile without samples.
NothingToScale(pid) ==
    /\ runtime[pid] # Absent
    /\ total(runtime[pid][1]) = 0
    /\ ReferenceTotal(pid) > 0

Without(profiles, other) == [profiles EXCEPT ![other] = Absent]

ErrorKeys(counter) ==
    {k \in DOMAIN counter : contains(lower(k), <<"e", "r", "r", "o", "r">>)}

\* C19: with a reference total above 0 and a runtime multiset that is an
\* error stack, the merged result keeps every reference stack with at least
\* its reference count and holds every error-marker stack of the runtime
\* multiset with at least its runtime count, a positive count for one that
\* has samples.
ErrorStackAttached ==
    merged # Absent =>
        \A pid \in Pids :
            (/\ runtime[pid] # Absent
             /\ is_error_stack(runtime[pid][1])
             /\ ReferenceTotal(pid) > 0)
                => /\ MergedPid(pid)
                   /\ \A k \in DOMAIN stacks_of(perf, pid) :
                          /\ k \in DOMAIN merged[1].value[pid]
                          /\ merged[1].value[pid][k] >= stacks_of(perf, pid)[k]
                   /\ \A k \in ErrorKeys(runtime[pid][1]) :
                          /\ k \in DOMAIN merged[1].value[pid]
                          /\ merged[1].value[pid][k] >= runtime[pid][1][k]

\* C19 witness: an error stack with fewer reference samples than runtime
\* samples was merged, its error marker kept with its count.
ErrorStackMergedUnscaled ==
    /\ merged # Absent
    /\ runtime[1] # Absent
    /\ is_error_stack(runtime[1][1])
    /\ ReferenceTotal(1) > 0
    /\ runtime[1][1][StackError] > ReferenceTotal(1)
    /\ MergedPid(1)
    /\ merged[1].value[1][StackError] = runtime[1][1][StackError]

\* C21: a process with reference samples and no runtime profile gets exactly
\* its reference multiset as merged result: the same stacks, the same counts.
ReferenceOnlyPassesThrough ==
    merged # Absent =>
        \A pid \in Pids :
            (runtime[pid] = Absent /\ perf[pid] # Absent /\ ReferenceTotal(pid) > 0)
                => (MergedPid(pid) /\ merged[1].value[pid] = perf[pid][1])

\* C21 witness: a round was merged in which process 1 had two reference
\* stacks and no runtime profile, and process 2 a runtime profile scaled to
\* its reference.
ReferenceOnlyMerged ==
    /\ merged # Absent
    /\ runtime[1] = Absent
    /\ perf[1] # Absent
    /\ DOMAIN perf[1][1] = PerfKeys
    /\ MergedPid(1)
    /\ merged[1].value[1] = perf[1][1]
    /\ runtime[2] # Absent
    /\ ReferenceTotal(2) > 0
    /\ total(runtime[2][1]) > ReferenceTotal(2)

(***************************************************************************)
(* Claims about reading the summary CSV (SpecParse).                       *)
(***************************************************************************)

Commas(line) == {i \in 1 .. Len(line) : line[i] = Comma}

FirstComma(line) == CHOOSE i \in Commas(line) : \A j \in Commas(line) : i <= j

\* The text before the first comma of a line that has one.
FirstField(line) == SubSeq(line, 1, FirstComma(line) - 1)

\* The text between the first comma and the second, or the end of the line.
SecondField(line) ==
    LET later == {i \in Commas(line) : i > FirstComma(line)}
        last == IF later = {}
                THEN Len(line)
                ELSE (CHOOSE i \in later : \A j \in later : i <= j) - 1
    IN SubSeq(line, FirstComma(line) + 1, last)

Rows == 2 .. Len(csv_lines)

\* A header line, then lines of the form name,value,...
WellFormedCsv ==
    /\ Len(csv_lines) >= 1
    /\ \A i \in Rows : Commas(csv_lines[i]) # {}

\* C20: reading a summary CSV (a header line, then rows name,value,...) gives
\* the mapping with one entry for each name of a row, none for the header
\* line; an entry's value is the second field of the last row of its name.
SummaryIsLastValueOfRows ==
    (parsed # Absent /\ WellFormedCsv)
        => /\ parsed[1].exc = None
           /\ DOMAIN parsed[1].value = {FirstField(csv_lines[i]) : i \in Rows}
           /\ \A i \in Rows :
                  (\A j \in Rows : j > i => FirstField(csv_lines[j]) # FirstField(csv_lines[i]))
                      => parsed[1].value[FirstField(csv_lines[i])] = SecondField(csv_lines[i])

\* C20 witness: a file of a header and two rows of one name with different
\* values was read: the second value is the entry, the header is none.
SummaryReadWithDuplicate ==
    /\ parsed # Absent
    /\ parsed[1].exc = None
    /\ Len(csv_lines) = 3
    /\ csv_lines[1] = CsvHeader
    /\ WellFormedCsv
    /\ FirstField(csv_lines[2]) = FirstField(csv_lines[3])
    /\ SecondField(csv_lines[2]) # SecondField(csv_lines[3])
    /\ DOMAIN parsed[1].value = {FirstField(csv_lines[3])}
    /\ parsed[1].value[FirstField(csv_lines[3])] = SecondField(csv_lines[3])

====
